---- MODULE Spec2Model ----
(***************************************************************************)
(* Depth-Channel-Debander-Smoother: the two command-line tools zsmooth.py  *)
(* and zsmooth_dynamic_range.py as one state machine.  One behaviour is    *)
(* one invocation of one tool's main(): argument validation, then each     *)
(* call of process_depth_image as the steps read_image, range adjustment, *)
(* reduce_banding, edge_preserving_smooth and the three calls of save_exr. *)
(*                                                                         *)
(* Samples are exact rationals <<numerator, denominator>> in lowest terms  *)
(* with a positive denominator; <<0, 0>> is numpy's NaN (the value of      *)
(* 0/0).  float32 rounding is not modelled.                                *)
(***************************************************************************)
EXTENDS Integers, Sequences, FiniteSets

\* ------------------------------------------------------------- bounds
\* Number of pixels of the (one-dimensional) image.
ImgLen == 3
\* Largest integer sample of the decoded file (255 for an 8-bit source).
MaxRaw == 2

\* ---------------------------------------------------- program constants
\* argparse defaults of --large_scale, --fine_scale and --spatial_sigma.
large_scale == 15
fine_scale == 3
spatial_sigma == 50

\* ------------------------------------------------------------ rationals
Abs(n) == IF n < 0 THEN -n ELSE n

RECURSIVE GCD(_, _)
GCD(a, b) == IF b = 0 THEN a ELSE GCD(b, a % b)

\* numpy's nan.
NaN == <<0, 0>>
\* Python's None (an option that was not given).
None == <<>>

\* n/d in lowest terms, d # 0.
Rat(n, d) ==
    LET g == GCD(Abs(n), Abs(d))
        s == IF d < 0 THEN -1 ELSE 1
    IN  <<(s * n) \div g, (s * d) \div g>>

Zero == <<0, 1>>
One == <<1, 1>>

IsNaN(x) == x[2] = 0

\* IEEE arithmetic on the values that arise: NaN is absorbing, 0/0 is NaN.
\* x/0 with x # 0 (an infinity, kept as <<sign, 0>>) does not arise: see
\* NoInfinity.
Add(x, y) == IF IsNaN(x) \/ IsNaN(y) THEN NaN
             ELSE Rat(x[1] * y[2] + y[1] * x[2], x[2] * y[2])
Sub(x, y) == IF IsNaN(x) \/ IsNaN(y) THEN NaN
             ELSE Rat(x[1] * y[2] - y[1] * x[2], x[2] * y[2])
Mul(x, y) == IF IsNaN(x) \/ IsNaN(y) THEN NaN
             ELSE Rat(x[1] * y[1], x[2] * y[2])
Div(x, y) == IF IsNaN(x) \/ IsNaN(y) THEN NaN
             ELSE IF y[1] = 0
                  THEN (IF x[1] = 0 THEN NaN
                        ELSE <<IF x[1] < 0 THEN -1 ELSE 1, 0>>)
                  ELSE Rat(x[1] * y[2], x[2] * y[1])

\* Comparisons: any comparison with NaN is False.
Lt(x, y) == ~IsNaN(x) /\ ~IsNaN(y) /\ x[1] * y[2] < y[1] * x[2]
Le(x, y) == ~IsNaN(x) /\ ~IsNaN(y) /\ x[1] * y[2] <= y[1] * x[2]
Gt(x, y) == Lt(y, x)
Ge(x, y) == Le(y, x)

\* np.abs on one sample.
AbsR(x) == IF IsNaN(x) THEN NaN ELSE <<Abs(x[1]), x[2]>>

\* ---------------------------------------------------------------- images
Pixels == 1..ImgLen
Null == <<>>

HasNaN(image) == \E i \in DOMAIN image : IsNaN(image[i])

\* np.min / np.max over the whole image: NaN if any sample is NaN.
NpMin(image) ==
    IF HasNaN(image) THEN NaN
    ELSE image[CHOOSE i \in DOMAIN image :
                   \A j \in DOMAIN image : Le(image[i], image[j])]
NpMax(image) ==
    IF HasNaN(image) THEN NaN
    ELSE image[CHOOSE i \in DOMAIN image :
                   \A j \in DOMAIN image : Ge(image[i], image[j])]

\* ------------------------------------------------------- pure functions
\* img.astype(np.float32): the decoded integer samples, unscaled.
read_image_zsmooth(raw) == [i \in DOMAIN raw |-> Rat(raw[i], 1)]

\* read_image of zsmooth_dynamic_range.py: an integer-sample file (uint8,
\* uint16) is divided by its largest representable sample, any other is
\* taken as it is.
read_image_dr(dtype, raw) ==
    IF dtype = "uint8"
    THEN [i \in DOMAIN raw |-> Rat(raw[i], MaxRaw)]
    ELSE [i \in DOMAIN raw |-> Rat(raw[i], 1)]

\* Mutant of normalize_image: divides by the maximum, not by the range.
normalize_image_ByMax(image) ==
    LET lo == NpMin(image)
        hi == NpMax(image)
    IN  [i \in DOMAIN image |-> Div(Sub(image[i], lo), hi)]

\* (image - np.min(image)) / (np.max(image) - np.min(image))
normalize_image(image) ==
    LET lo == NpMin(image)
        hi == NpMax(image)
    IN  [i \in DOMAIN image |-> Div(Sub(image[i], lo), Sub(hi, lo))]

\* Mutant of Clip: clips below black only.
Clip_LowerOnly(v, lo, hi) ==
    IF IsNaN(v) \/ IsNaN(lo) \/ IsNaN(hi) THEN NaN
    ELSE IF Lt(v, lo) THEN lo ELSE v

\* np.clip on one sample: minimum(maximum(v, lo), hi); NaN stays NaN.
Clip(v, lo, hi) ==
    IF IsNaN(v) \/ IsNaN(lo) \/ IsNaN(hi) THEN NaN
    ELSE LET m == IF Lt(v, lo) THEN lo ELSE v
         IN  IF Gt(m, hi) THEN hi ELSE m

\* The comparison that guards the ValueError of extend_dynamic_range.
WhiteNotAboveBlack(bp, wp) == Le(wp, bp)

\* extend_dynamic_range: err is the exception raised ("" for none).
\* float(None) raises TypeError before anything else is looked at.
extend_dynamic_range(image, bp, wp) ==
    IF bp = None \/ wp = None
    THEN [err |-> "TypeError", image |-> Null]
    ELSE IF WhiteNotAboveBlack(bp, wp)
    THEN [err |-> "ValueError", image |-> Null]
    ELSE [err |-> "",
          image |-> [i \in DOMAIN image |->
                       Div(Sub(Clip(image[i], bp, wp), bp), Sub(wp, bp))]]

\* cv2.bilateralFilter's window radius: d/2, or from sigmaSpace when
\* d <= 0; never below 1.
Radius(d, sigmaSpace) ==
    LET r == IF d <= 0 THEN (3 * sigmaSpace + 1) \div 2 ELSE d \div 2
    IN  IF r < 1 THEN 1 ELSE r

Window(image, i, r) == {j \in DOMAIN image : Abs(i - j) <= r}

RECURSIVE SumOver(_, _)
SumOver(image, S) ==
    IF S = {} THEN Zero
    ELSE LET j == CHOOSE k \in S : TRUE
         IN  Add(image[j], SumOver(image, S \ {j}))

\* The sample difference from which the filter treats two samples as
\* lying across an edge (sigmaColor decides it in cv2): the full range of
\* a range-adjusted image.
EdgeStep == One

\* cv2.bilateralFilter(image, d, sigmaColor, sigmaSpace).  Each output
\* sample is a weighted average of the samples in its window, the sample
\* itself always among them; a neighbour weighs less the more its sample
\* differs.  The kernel is not part of the repository; two behaviours of
\* it are modelled: "preserve" (no neighbour weighs in: the sample is
\* kept) and "blur" (every neighbour not across an edge weighs like the
\* sample itself).  A constant image and an all-NaN image come back
\* unchanged in both.
bilateralFilter(image, d, sigmaSpace, mode) ==
    IF mode = "preserve" THEN image
    ELSE [i \in DOMAIN image |->
            LET W == {j \in Window(image, i, Radius(d, sigmaSpace)) :
                        \/ j = i
                        \/ Lt(AbsR(Sub(image[i], image[j])), EdgeStep)}
            IN  Div(SumOver(image, W), Rat(Cardinality(W), 1))]

\* Mutant of DetailSelected: >= in place of >.
DetailSelected_OrEqual(detail, threshold) == Ge(AbsR(detail), threshold)

\* np.abs(detail) > detail_threshold
DetailSelected(detail, threshold) == Gt(AbsR(detail), threshold)

\* reduce_banding before its final normalize_image: the np.where blend.
Blend(image, large, fine, bst, threshold) ==
    [i \in DOMAIN image |->
        LET detail == Sub(image[i], fine[i])
            boosted == Add(fine[i], Mul(detail, bst))
        IN  IF DetailSelected(detail, threshold) THEN boosted ELSE large[i]]

\* Mutant of RejectsPoints: equal points pass (> in place of >=).
RejectsPoints_EqualPasses(bp, wp) ==
    IF bp # None /\ wp # None
    THEN \/ Lt(bp, Zero)
         \/ Ge(bp, One)
         \/ Le(wp, Zero)
         \/ Gt(wp, One)
         \/ Gt(bp, wp)
    ELSE bp # None \/ wp # None

\* The if / elif of main in zsmooth_dynamic_range.py: TRUE when main
\* prints an error and calls sys.exit(1).
RejectsPoints(bp, wp) ==
    IF bp # None /\ wp # None
    THEN \/ Lt(bp, Zero)
         \/ Ge(bp, One)
         \/ Le(wp, Zero)
         \/ Gt(wp, One)
         \/ Ge(bp, wp)
    ELSE bp # None \/ wp # None

\* How many times main calls process_depth_image.
CallsInMain(t) == IF t = "zsmooth" THEN 1 ELSE 2

\* ----------------------------------------------------------------- state
VARIABLES
    tool,              \* which script runs: "zsmooth" or "zsmooth_dynamic_range"
    black_point,       \* args.black_point (None when not given)
    white_point,       \* args.white_point
    boost,             \* args.boost
    detail_threshold,  \* args.detail_threshold
    filter_mode,       \* how cv2.bilateralFilter acts at each call site
    input_file,        \* the file at args.input_file
    output_file,       \* the file at args.output_file
    pc,                \* position in main / process_depth_image / save_exr
    calls,             \* calls of process_depth_image so far
    reads,             \* successful reads of the input file
    writes,            \* times pixels were written to the output file
    exit_status,       \* process exit status, -1 while running
    stage,             \* pipeline state of the current call
    adjuster,          \* the range adjustment the current call applied
    depth_map,         \* read_image's result
    adjusted,          \* `normalized` (zsmooth.py) / reassigned `depth_map`
    large_smooth,      \* locals of reduce_banding
    fine_smooth,
    result,
    smoothed,          \* reduce_banding's return value
    final,             \* edge_preserving_smooth's return value
    consumed           \* the image argument of the stage entered last

config == <<tool, black_point, white_point, boost, detail_threshold,
            filter_mode, input_file>>
locals == <<depth_map, adjusted, large_smooth, fine_smooth, result,
            smoothed, final>>
vars == <<config, output_file, pc, calls, reads, writes, exit_status,
          stage, adjuster, locals, consumed>>

Tools == {"zsmooth", "zsmooth_dynamic_range"}

\* Values of --black_point / --white_point that are tried.
PointValues == {Rat(-1, 4), Zero, Rat(1, 4), Rat(3, 4), One, Rat(5, 4)}
\* Values of --boost (1.5 is the default) and --detail_threshold (0.02 is
\* the default).
BoostValues == {Zero, Rat(3, 2)}
ThresholdValues == {Rat(1, 50), Rat(1, 4)}

FilterSites == {"large", "fine", "final"}
FilterModes == {"preserve", "blur"}

InputFiles ==
    {[readable |-> FALSE, dtype |-> "", raw |-> Null]} \cup
    {[readable |-> TRUE, dtype |-> t, raw |-> r] :
        t \in {"uint8", "float32"}, r \in [Pixels -> 0..MaxRaw]}

Absent == [state |-> "absent", pixels |-> Null]

Init ==
    /\ tool \in Tools
    /\ black_point \in (IF tool = "zsmooth" THEN {None}
                        ELSE PointValues \cup {None})
    /\ white_point \in (IF tool = "zsmooth" THEN {None}
                        ELSE PointValues \cup {None})
    /\ boost \in BoostValues
    /\ detail_threshold \in ThresholdValues
    /\ filter_mode \in [FilterSites -> FilterModes]
    /\ input_file \in InputFiles
    /\ output_file = Absent
    /\ pc = IF tool = "zsmooth" THEN "call" ELSE "validate"
    /\ calls = 0
    /\ reads = 0
    /\ writes = 0
    /\ exit_status = -1
    /\ stage = "Start"
    /\ adjuster = "none"
    /\ depth_map = Null
    /\ adjusted = Null
    /\ large_smooth = Null
    /\ fine_smooth = Null
    /\ result = Null
    /\ smoothed = Null
    /\ final = Null
    /\ consumed = Null

\* sys.exit(1), or an exception nothing catches (Python exits with 1).
Exit(status) ==
    /\ pc' = "exit"
    /\ exit_status' = status

\* ---------------------------------------------------------------- actions
\* main of zsmooth_dynamic_range.py, the black/white point checks.
Validate ==
    /\ pc = "validate"
    /\ IF RejectsPoints(black_point, white_point)
       THEN Exit(1)
       ELSE pc' = "call" /\ UNCHANGED exit_status
    /\ UNCHANGED <<config, output_file, calls, reads, writes, stage,
                   adjuster, locals, consumed>>

\* main calls process_depth_image: a new frame, no local is bound yet.
CallProcess ==
    /\ pc = "call"
    /\ pc' = "read"
    /\ calls' = calls + 1
    /\ stage' = "Start"
    /\ adjuster' = "none"
    /\ depth_map' = Null
    /\ adjusted' = Null
    /\ large_smooth' = Null
    /\ fine_smooth' = Null
    /\ result' = Null
    /\ smoothed' = Null
    /\ final' = Null
    /\ consumed' = Null
    /\ UNCHANGED <<config, output_file, reads, writes, exit_status>>

\* depth_map = read_image(input_path); a ValueError prints and exits 1.
ReadImage ==
    /\ pc = "read"
    /\ IF input_file.readable
       THEN /\ depth_map' = (IF tool = "zsmooth"
                             THEN read_image_zsmooth(input_file.raw)
                             ELSE read_image_dr(input_file.dtype,
                                                input_file.raw))
            /\ reads' = reads + 1
            /\ stage' = "Loaded"
            /\ pc' = "range"
            /\ UNCHANGED exit_status
       ELSE /\ Exit(1)
            /\ UNCHANGED <<depth_map, reads, stage>>
    /\ UNCHANGED <<config, output_file, calls, writes, adjuster, adjusted,
                   large_smooth, fine_smooth, result, smoothed, final,
                   consumed>>

\* zsmooth.py: normalized = normalize_image(depth_map)
\* zsmooth_dynamic_range.py:
\*     depth_map = extend_dynamic_range(depth_map, black_point, white_point)
\* whose exceptions nothing catches.
RangeAdjust ==
    /\ pc = "range"
    /\ consumed' = depth_map
    /\ IF tool = "zsmooth"
       THEN /\ adjusted' = normalize_image(depth_map)
            /\ adjuster' = "normalize_image"
            /\ stage' = "RangeAdjusted"
            /\ pc' = "band"
            /\ UNCHANGED exit_status
       ELSE LET r == extend_dynamic_range(depth_map, black_point, white_point)
            IN  IF r.err = ""
                THEN /\ adjusted' = r.image
                     /\ adjuster' = "extend_dynamic_range"
                     /\ stage' = "RangeAdjusted"
                     /\ pc' = "band"
                     /\ UNCHANGED exit_status
                ELSE /\ Exit(1)
                     /\ UNCHANGED <<adjusted, adjuster, stage>>
    /\ UNCHANGED <<config, output_file, calls, reads, writes, depth_map,
                   large_smooth, fine_smooth, result, smoothed, final>>

\* Mutant of BandingInput: the image as read, before range adjustment.
BandingInput_Unadjusted == depth_map

\* The image process_depth_image passes to reduce_banding.
BandingInput == adjusted

\* smoothed = reduce_banding(..., large_scale, fine_scale, boost,
\*                           detail_threshold)
ReduceBanding ==
    /\ pc = "band"
    /\ LET image == BandingInput
           large == bilateralFilter(image, large_scale, large_scale,
                                    filter_mode["large"])
           fine == bilateralFilter(image, fine_scale, fine_scale,
                                   filter_mode["fine"])
           res == Blend(image, large, fine, boost, detail_threshold)
       IN  /\ consumed' = image
           /\ large_smooth' = large
           /\ fine_smooth' = fine
           /\ result' = res
           /\ smoothed' = normalize_image(res)
    /\ stage' = "BandingReduced"
    /\ pc' = "smooth"
    /\ UNCHANGED <<config, output_file, calls, reads, writes, exit_status,
                   adjuster, depth_map, adjusted, final>>

\* final = edge_preserving_smooth(smoothed, spatial_sigma, range_sigma)
EdgePreservingSmooth ==
    /\ pc = "smooth"
    /\ consumed' = smoothed
    /\ final' = bilateralFilter(smoothed, -1, spatial_sigma,
                                filter_mode["final"])
    /\ stage' = "Smoothed"
    /\ pc' = "save_open"
    /\ UNCHANGED <<config, output_file, calls, reads, writes, exit_status,
                   adjuster, depth_map, adjusted, large_smooth, fine_smooth,
                   result, smoothed>>

\* save_exr(output_path, final): exr = OpenEXR.OutputFile(file_path, header)
\* creates (or truncates) the file, or raises; process_depth_image turns
\* any exception of save_exr into sys.exit(1).
SaveOpen ==
    /\ pc = "save_open"
    /\ consumed' = final
    /\ \E ok \in BOOLEAN :
         IF ok
         THEN /\ output_file' = [state |-> "partial", pixels |-> Null]
              /\ pc' = "save_write"
              /\ UNCHANGED exit_status
         ELSE /\ Exit(1)
              /\ UNCHANGED output_file
    /\ UNCHANGED <<config, calls, reads, writes, stage, adjuster, locals>>

\* exr.writePixels({'Y': image_flat}): writes the samples, or raises.
SaveWritePixels ==
    /\ pc = "save_write"
    /\ \E ok \in BOOLEAN :
         IF ok
         THEN /\ output_file' = [state |-> "partial", pixels |-> consumed]
              /\ writes' = writes + 1
              /\ pc' = "save_close"
              /\ UNCHANGED exit_status
         ELSE /\ Exit(1)
              /\ UNCHANGED <<output_file, writes>>
    /\ UNCHANGED <<config, calls, reads, stage, adjuster, locals, consumed>>

\* exr.close(): the file is complete.
SaveClose ==
    /\ pc = "save_close"
    /\ output_file' = [output_file EXCEPT !.state = "complete"]
    /\ stage' = "Serialized"
    /\ pc' = "return"
    /\ UNCHANGED <<config, calls, reads, writes, exit_status, adjuster,
                   locals, consumed>>

\* process_depth_image returns to main: main calls it again if another
\* call follows, else prints the confirmation and ends with status 0.
Return ==
    /\ pc = "return"
    /\ IF calls < CallsInMain(tool)
       THEN pc' = "call" /\ UNCHANGED exit_status
       ELSE Exit(0)
    /\ UNCHANGED <<config, output_file, calls, reads, writes, stage,
                   adjuster, locals, consumed>>

Next ==
    \/ Validate
    \/ CallProcess
    \/ ReadImage
    \/ RangeAdjust
    \/ ReduceBanding
    \/ EdgePreservingSmooth
    \/ SaveOpen
    \/ SaveWritePixels
    \/ SaveClose
    \/ Return

Spec == Init /\ [][Next]_vars

\* Sanity: no infinity (x/0 with x # 0) is ever computed.
NoInfinity ==
    \A image \in {depth_map, adjusted, large_smooth, fine_smooth, result,
                  smoothed, final} :
        \A i \in DOMAIN image : image[i][2] = 0 => image[i][1] = 0

\* ------------------------------------------- extend_dynamic_range alone
\* A direct call extend_dynamic_range(image, black_point, white_point) on
\* any decoded image and any pair of numbers, validated or not.
InitExtend ==
    /\ tool = "zsmooth_dynamic_range"
    /\ black_point \in PointValues
    /\ white_point \in PointValues
    /\ boost = Rat(3, 2)
    /\ detail_threshold = Rat(1, 50)
    /\ filter_mode = [s \in FilterSites |-> "preserve"]
    /\ input_file \in {f \in InputFiles : f.readable}
    /\ output_file = Absent
    /\ pc = "extend"
    /\ calls = 0
    /\ reads = 0
    /\ writes = 0
    /\ exit_status = -1
    /\ stage = "Loaded"
    /\ adjuster = "none"
    /\ depth_map = read_image_dr(input_file.dtype, input_file.raw)
    /\ adjusted = Null
    /\ large_smooth = Null
    /\ fine_smooth = Null
    /\ result = Null
    /\ smoothed = Null
    /\ final = Null
    /\ consumed = Null

CallExtend ==
    /\ pc = "extend"
    /\ consumed' = depth_map
    /\ LET r == extend_dynamic_range(depth_map, black_point, white_point)
       IN  IF r.err = ""
           THEN /\ adjusted' = r.image
                /\ adjuster' = "extend_dynamic_range"
                /\ pc' = "returned"
           ELSE /\ pc' = r.err
                /\ UNCHANGED <<adjusted, adjuster>>
    /\ UNCHANGED <<config, output_file, calls, reads, writes, exit_status,
                   stage, depth_map, large_smooth, fine_smooth, result,
                   smoothed, final>>

SpecExtend == InitExtend /\ [][CallExtend]_vars

\* ----------------------------------------------------- shared predicates
Reduced == stage \in {"BandingReduced", "Smoothed", "Serialized"}
RangeDone == stage \in {"RangeAdjusted", "BandingReduced", "Smoothed",
                        "Serialized"}
Defined(image) == \A i \in DOMAIN image : ~IsNaN(image[i])
InUnitRange(image) ==
    \A i \in DOMAIN image : Le(Zero, image[i]) /\ Le(image[i], One)
\* All samples are numbers and equal (max == min).
Constant(image) ==
    /\ image # Null
    /\ Defined(image)
    /\ \A i, j \in DOMAIN image : image[i] = image[j]
\* All samples are numbers and at least two differ.
NonConstant(image) ==
    /\ image # Null
    /\ Defined(image)
    /\ \E i \in DOMAIN image : image[i] # image[1]

\* ------------------------------------------------------------------- C1
\* The combinations C1 says are refused: exactly one point given, or both
\* given without 0 <= black_point < white_point <= 1.
RefusedByContract ==
    \/ (black_point = None) # (white_point = None)
    \/ /\ black_point # None
       /\ white_point # None
       /\ ~(Le(Zero, black_point) /\ Lt(black_point, white_point)
            /\ Le(white_point, One))

\* C1: once main is past its point checks, it has ended with status 1
\* before any call of process_depth_image exactly when the combination of
\* --black_point and --white_point is a refused one, and then the input
\* was not read and no output file exists.
C1_UsageError ==
    pc # "validate" =>
        /\ (pc = "exit" /\ exit_status = 1 /\ calls = 0) <=> RefusedByContract
        /\ RefusedByContract => (reads = 0 /\ output_file = Absent)

\* C1 witness: both points given and equal; main has ended with status 1
\* before calling process_depth_image.
C1_Witness ==
    /\ black_point # None
    /\ black_point = white_point
    /\ pc = "exit"
    /\ exit_status = 1
    /\ calls = 0

\* ------------------------------------------------------------------- C2
BoundsSupplied == black_point # None /\ white_point # None

\* C2: a run that loaded its image applies one range adjustment,
\* extend_dynamic_range when both points were supplied and normalize_image
\* when neither was, and does not end at Loaded.
C2_OneRangeAdjustment ==
    /\ RangeDone =>
         adjuster = (IF BoundsSupplied THEN "extend_dynamic_range"
                     ELSE "normalize_image")
    /\ stage = "Loaded" => pc # "exit"

\* ------------------------------------------------------------------- C3
\* C3: an invocation that ends in failure has not created or modified the
\* output file.
C3_NoOutputOnFailure ==
    (pc = "exit" /\ exit_status # 0) => output_file = Absent

RescaledByMinMax(src, out) ==
    /\ DOMAIN out = DOMAIN src
    /\ InUnitRange(out)
    /\ \E i \in DOMAIN out : out[i] = Zero
    /\ \E i \in DOMAIN out : out[i] = One
    /\ LET lo == CHOOSE k \in DOMAIN src :
                    \A j \in DOMAIN src : Le(src[k], src[j])
           hi == CHOOSE k \in DOMAIN src :
                    \A j \in DOMAIN src : Le(src[j], src[k])
       IN  \A i \in DOMAIN src :
               Mul(out[i], Sub(src[hi], src[lo])) = Sub(src[i], src[lo])

\* C5: wherever normalize_image is applied to an image whose samples are
\* not all equal (on the image read, in zsmooth.py; on the blend, at the
\* end of reduce_banding), the returned image has minimum 0, maximum 1 and
\* samples (v - min) / (max - min).
C5_NormalizeContract ==
    /\ (adjuster = "normalize_image" /\ NonConstant(depth_map)) =>
         RescaledByMinMax(depth_map, adjusted)
    /\ (Reduced /\ NonConstant(result)) =>
         RescaledByMinMax(result, smoothed)

\* C5 witness: both applications in one run, on non-constant images, the
\* blend having a sample above 1.
C5_Witness ==
    /\ adjuster = "normalize_image"
    /\ NonConstant(depth_map)
    /\ Reduced
    /\ NonConstant(result)
    /\ \E i \in DOMAIN result : Gt(result[i], One)

\* ------------------------------------------------------------------- C6
\* C6: for an input of reduce_banding with every sample a number in [0,1]
\* and boost >= 0, every sample reduce_banding returns is a number in
\* [0,1].
C6_ReducedInUnitRange ==
    (Reduced /\ InUnitRange(adjusted) /\ Ge(boost, Zero)) =>
        InUnitRange(smoothed)

\* ------------------------------------------------------------------- C7
\* C7: one invocation runs the pipeline once: process_depth_image is
\* entered at most once, the input is read at most once and the output is
\* written at most once.
C7_PipelineOnce == calls <= 1 /\ reads <= 1 /\ writes <= 1

\* ------------------------------------------------------------------- C8
StageOrder ==
    {<<"Start", "Loaded">>, <<"Loaded", "RangeAdjusted">>,
     <<"RangeAdjusted", "BandingReduced">>, <<"BandingReduced", "Smoothed">>,
     <<"Smoothed", "Serialized">>}

\* C8: within one call of process_depth_image the stage only advances to
\* its successor in Loaded, RangeAdjusted, BandingReduced, Smoothed,
\* Serialized (a change to Start is a new call); the stage entered takes
\* the image the stage before it produced; and the output file changes
\* only at Smoothed and takes no samples but those of the Smoothed image.
C8_StrictlySequential ==
    [][ /\ stage' # stage =>
             \/ <<stage, stage'>> \in StageOrder
             \/ stage' = "Start" /\ calls' = calls + 1
        /\ (stage' # stage /\ stage' = "RangeAdjusted") =>
             (consumed' = depth_map /\ depth_map # Null)
        /\ (stage' # stage /\ stage' = "BandingReduced") =>
             (consumed' = adjusted /\ adjusted # Null)
        /\ (stage' # stage /\ stage' = "Smoothed") =>
             (consumed' = smoothed /\ smoothed # Null)
        /\ (stage' # stage /\ stage' = "Serialized") =>
             (consumed' = final /\ output_file'.pixels = final)
        /\ output_file' # output_file =>
             /\ stage = "Smoothed"
             /\ final # Null
             /\ output_file'.pixels \in {Null, final}
      ]_vars

\* C8 witness: a call that went through every stage; the file holds the
\* Smoothed image, which differs from the images of the earlier stages.
C8_Witness ==
    /\ stage = "Serialized"
    /\ output_file.state = "complete"
    /\ output_file.pixels = final
    /\ final # smoothed
    /\ smoothed # adjusted
    /\ adjusted # depth_map

\* ------------------------------------------------------------------- C9
\* C9: before renormalization the blend at pixel i is
\* fine_smooth[i] + (image[i] - fine_smooth[i]) * boost when
\* |image[i] - fine_smooth[i]| > detail_threshold and large_smooth[i]
\* otherwise, equality included; so where the residual is 0 and
\* detail_threshold > 0 it is large_smooth[i].
C9_BlendRule ==
    Reduced =>
        \A i \in DOMAIN result :
            LET residual == Sub(adjusted[i], fine_smooth[i])
                above == /\ ~IsNaN(residual)
                         /\ \/ Lt(detail_threshold, residual)
                            \/ Lt(residual, Sub(Zero, detail_threshold))
            IN  /\ above =>
                     result[i] = Add(fine_smooth[i], Mul(residual, boost))
                /\ ~above => result[i] = large_smooth[i]
                /\ (residual = Zero /\ Lt(Zero, detail_threshold)) =>
                     result[i] = large_smooth[i]

\* C9 witness: one blend with a pixel whose residual magnitude equals the
\* threshold (large_smooth taken, which differs from the boosted value) and
\* a pixel above the threshold (boosted value taken, which differs from
\* large_smooth).
C9_Witness ==
    /\ Reduced
    /\ \E i, j \in DOMAIN result :
         LET ri == Sub(adjusted[i], fine_smooth[i])
             rj == Sub(adjusted[j], fine_smooth[j])
         IN  /\ AbsR(ri) = detail_threshold
             /\ result[i] = large_smooth[i]
             /\ large_smooth[i] # Add(fine_smooth[i], Mul(ri, boost))
             /\ Gt(AbsR(rj), detail_threshold)
             /\ result[j] # large_smooth[j]

\* ------------------------------------------------------------------ C10
\* C10: normalize_image applied to an image whose samples are all equal
\* returns all zeros or aborts the run (and then no result is bound); it
\* does not return NaN samples to the stages that follow.
C10_DegeneratePolicy ==
    /\ (adjuster = "normalize_image" /\ Constant(depth_map)) =>
         \A i \in DOMAIN adjusted : adjusted[i] = Zero
    /\ (Reduced /\ Constant(result)) =>
         \A i \in DOMAIN smoothed : smoothed[i] = Zero
    /\ (tool = "zsmooth" /\ stage = "Serialized" /\ Constant(depth_map)) =>
         Defined(output_file.pixels)

====
